---- MODULE Spec2Model ----
(***************************************************************************)
(* CSV upload service: the Express file store (backend/server.js) and the  *)
(* browser upload client (the page script).                                *)
(*                                                                         *)
(* Strings that the code inspects (paths, file names, URL parameters) are  *)
(* sequences of tokens, so that String.startsWith, String.endsWith,        *)
(* path.join and decodeURIComponent are computed and not assumed.  A token *)
(* is one character ("/", ".", "-", a digit, a letter) or a word that no   *)
(* code looks inside ("uploads", "csv"); every string is written with the  *)
(* same tokens wherever it occurs.  The token "%2F" is an escaped slash.   *)
(***************************************************************************)
EXTENDS Integers, Sequences, FiniteSets, Bags, TLC

(***************************************************************************)
(* Bounds of the model.                                                    *)
(***************************************************************************)
MaxTime == 1
MaxInFlight == 2

(***************************************************************************)
(* String helpers (JavaScript String.prototype).                           *)
(***************************************************************************)
startsWith(s, p) == Len(p) <= Len(s) /\ SubSeq(s, 1, Len(p)) = p

endsWith(s, p) == Len(p) <= Len(s) /\ SubSeq(s, Len(s) - Len(p) + 1, Len(s)) = p

DigitChar == <<"0", "1", "2", "3", "4", "5", "6", "7", "8", "9">>

RECURSIVE numberToString(_)
numberToString(n) ==
    IF n < 10 THEN <<DigitChar[n + 1]>>
    ELSE numberToString(n \div 10) \o <<DigitChar[(n % 10) + 1]>>

(***************************************************************************)
(* Node's posix path module.                                               *)
(***************************************************************************)
RECURSIVE splitSlash(_, _, _)
splitSlash(s, i, cur) ==
    IF i > Len(s) THEN <<cur>>
    ELSE IF s[i] = "/" THEN <<cur>> \o splitSlash(s, i + 1, <<>>)
    ELSE splitSlash(s, i + 1, Append(cur, s[i]))

RECURSIVE joinSlash(_)
joinSlash(segs) ==
    IF segs = <<>> THEN <<>>
    ELSE IF Len(segs) = 1 THEN segs[1]
    ELSE segs[1] \o <<"/">> \o joinSlash(Tail(segs))

DotDot == <<".", ".">>

RECURSIVE normalizeSegs(_, _, _)
normalizeSegs(segs, res, allowAboveRoot) ==
    IF segs = <<>> THEN res
    ELSE LET seg == Head(segs)
             rest == Tail(segs)
         IN IF seg = <<>> \/ seg = <<".">>
            THEN normalizeSegs(rest, res, allowAboveRoot)
            ELSE IF seg = DotDot
            THEN IF res # <<>> /\ res[Len(res)] # DotDot
                 THEN normalizeSegs(rest, SubSeq(res, 1, Len(res) - 1), allowAboveRoot)
                 ELSE IF allowAboveRoot
                      THEN normalizeSegs(rest, Append(res, DotDot), allowAboveRoot)
                      ELSE normalizeSegs(rest, res, allowAboveRoot)
            ELSE normalizeSegs(rest, Append(res, seg), allowAboveRoot)

normalizeString(path, allowAboveRoot) ==
    joinSlash(normalizeSegs(splitSlash(path, 1, <<>>), <<>>, allowAboveRoot))

normalize(path) ==
    IF path = <<>> THEN <<".">>
    ELSE LET isAbsolute == path[1] = "/"
             trailingSeparator == path[Len(path)] = "/"
             p == normalizeString(path, ~isAbsolute)
         IN IF p = <<>>
            THEN (IF isAbsolute THEN <<"/">>
                  ELSE IF trailingSeparator THEN <<".", "/">> ELSE <<".">>)
            ELSE LET q == IF trailingSeparator THEN p \o <<"/">> ELSE p
                 IN IF isAbsolute THEN <<"/">> \o q ELSE q

join(a, b) ==
    IF a = <<>> /\ b = <<>> THEN <<".">>
    ELSE IF a = <<>> THEN normalize(b)
    ELSE IF b = <<>> THEN normalize(a)
    ELSE normalize(a \o <<"/">> \o b)

(***************************************************************************)
(* URL component coding: Express decodes a route parameter with            *)
(* decodeURIComponent, the client encodes it with encodeURIComponent.      *)
(***************************************************************************)
RECURSIVE decodeURIComponent(_)
decodeURIComponent(s) ==
    IF s = <<>> THEN <<>>
    ELSE (IF Head(s) = "%2F" THEN <<"/">> ELSE <<Head(s)>>)
         \o decodeURIComponent(Tail(s))

RECURSIVE encodeURIComponent(_)
encodeURIComponent(s) ==
    IF s = <<>> THEN <<>>
    ELSE (IF Head(s) = "/" THEN <<"%2F">> ELSE <<Head(s)>>)
         \o encodeURIComponent(Tail(s))

(***************************************************************************)
(* Values the model draws its inputs from.                                 *)
(***************************************************************************)
Csv == <<".", "csv">>
ACsv == <<"a", ".", "csv">>
DTxt == <<"d", ".", "txt">>
ACSV == <<"a", ".", "CSV">>
XCsv == <<"x", ".", "csv">>

DefaultUploadDir == <<".", "/", "uploads">>
DockerUploadDir == <<"/", "app", "/", "uploads">>
UploadDirs == {DefaultUploadDir, DockerUploadDir}

\* the directory the server process runs in (README: Docker stores in /app/uploads)
CWD == <<"/", "app">>

\* files of the host that are not stored files
SiblingFile == <<"/", "app", "/", "uploads", "2", "/", "s">>
EtcFile == <<"/", "etc", "/", "p">>

\* URL parameters as sent on the wire (before decoding)
SiblingParam == <<".", ".", "%2F", "uploads", "2", "%2F", "s">>
EtcParam == <<".", ".", "%2F", ".", ".", "%2F", "etc", "%2F", "p">>

Blobs == {[size |-> 1, data |-> "x"], [size |-> 2, data |-> "y"]}
SecretBlob == [size |-> 3, data |-> "secret"]
OriginalNames == {ACsv, DTxt}

(***************************************************************************)
(* The filesystem: a function from absolute file paths to file contents.   *)
(* Relative paths are resolved against the working directory, as the       *)
(* operating system does.                                                  *)
(***************************************************************************)
stripTrailingSlash(p) ==
    IF Len(p) > 1 /\ p[Len(p)] = "/" THEN SubSeq(p, 1, Len(p) - 1) ELSE p

resolve(p) ==
    IF p # <<>> /\ p[1] = "/" THEN stripTrailingSlash(normalize(p))
    ELSE stripTrailingSlash(normalize(CWD \o <<"/">> \o p))

existsSync(d, p) == resolve(p) \in DOMAIN d

readFile(d, p) == d[resolve(p)]

unlinkFile(d, p) ==
    LET rp == resolve(p) IN [k \in (DOMAIN d) \ {rp} |-> d[k]]

copyFile(d, src, dst) ==
    LET rs == resolve(src)
        rd == resolve(dst)
    IN [k \in (DOMAIN d) \cup {rd} |-> IF k = rd THEN d[rs] ELSE d[k]]

writeFile(d, p, blob) ==
    LET rp == resolve(p) IN [k \in (DOMAIN d) \cup {rp} |-> IF k = rp THEN blob ELSE d[k]]

HasSlash(s) == \E i \in 1..Len(s) : s[i] = "/"

readdirSync(d, dir) ==
    LET prefix == resolve(dir) \o <<"/">>
    IN { SubSeq(k, Len(prefix) + 1, Len(k)) :
           k \in { f \in DOMAIN d :
                     /\ startsWith(f, prefix)
                     /\ Len(f) > Len(prefix)
                     /\ ~HasSlash(SubSeq(f, Len(prefix) + 1, Len(f))) } }

\* multer({ dest: '/tmp/uploads/' }) writes the part to a fresh file there
TmpDir == <<"/", "tmp", "/", "uploads", "/">>
TmpPath == TmpDir \o <<"t1">>

(***************************************************************************)
(* HTTP responses.  status 0 means that no response was sent.              *)
(***************************************************************************)
NoBlob == [size |-> 0, data |-> ""]
NoFile == [originalname |-> <<>>, blob |-> NoBlob]

NoResponse ==
    [status |-> 0, json |-> FALSE, success |-> FALSE, error |-> "",
     savedAs |-> <<>>, size |-> 0, body |-> NoBlob, files |-> {}]

Json(status, success, error) ==
    [NoResponse EXCEPT !.status = status, !.json = TRUE,
                       !.success = success, !.error = error]

(***************************************************************************)
(* backend/server.js: the request handlers.  Each yields the filesystem    *)
(* after the handler, the response, and the set of paths the handler gave  *)
(* to an fs call.                                                          *)
(***************************************************************************)
isCsv_always(name) == TRUE

isCsv(name) == endsWith(name, Csv)

savedName(t, originalname) == numberToString(t) \o <<"-">> \o originalname

\* the fs call sites of the upload handler that can throw
FaultSets == {{}, {"copyFileSync"}, {"unlinkSync"},
              {"copyFileSync", "cleanup"}, {"unlinkSync", "cleanup"}}

\* the catch block of the upload handler.  An exception thrown inside it
\* rejects the async handler's promise, which Express 4 does not observe:
\* no response is sent, and Node 18 ends the process on the unhandled
\* rejection.
uploadCatch(d, path, faults) ==
    IF existsSync(d, path)
    THEN IF "cleanup" \in faults
         THEN [disk |-> d, res |-> NoResponse, accessed |-> {resolve(path)}]
         ELSE [disk |-> unlinkFile(d, path),
               res |-> Json(500, FALSE, "Failed to upload file"),
               accessed |-> {resolve(path)}]
    ELSE [disk |-> d, res |-> Json(500, FALSE, "Failed to upload file"),
          accessed |-> {resolve(path)}]

postUpload(d, dir, t, file, path, faults) ==
    IF file = NoFile
    THEN [disk |-> d, res |-> Json(400, FALSE, "No file provided"), accessed |-> {}]
    ELSE LET d0 == writeFile(d, path, file.blob)
         IN IF ~isCsv(file.originalname)
            THEN IF "unlinkSync" \in faults
                 THEN uploadCatch(d0, path, faults)
                 ELSE [disk |-> unlinkFile(d0, path),
                       res |-> Json(400, FALSE, "Only CSV files are allowed"),
                       accessed |-> {resolve(path)}]
            ELSE LET fileName == savedName(t, file.originalname)
                     filePath == join(dir, fileName)
                 IN IF "copyFileSync" \in faults
                    THEN uploadCatch(d0, path, faults)
                    ELSE LET d1 == copyFile(d0, path, filePath)
                         IN IF "unlinkSync" \in faults
                            THEN uploadCatch(d1, path, faults)
                            ELSE [disk |-> unlinkFile(d1, path),
                                  res |-> [Json(200, TRUE, "") EXCEPT
                                             !.savedAs = fileName,
                                             !.size = file.blob.size],
                                  accessed |-> {resolve(path), resolve(filePath)}]

listFiles(d, dir) ==
    [disk |-> d,
     res |-> [Json(200, TRUE, "") EXCEPT
                !.files = { [fileName |-> n, size |-> readFile(d, join(dir, n)).size] :
                              n \in readdirSync(d, dir) }],
     accessed |-> {resolve(dir)} \cup { resolve(join(dir, n)) : n \in readdirSync(d, dir) }]

guard(filePath, dir) == startsWith(filePath, dir)

getFileMetadata(d, dir, fileName) ==
    LET filePath == join(dir, fileName)
    IN IF ~guard(filePath, dir)
       THEN [disk |-> d, res |-> Json(403, FALSE, "Access denied"), accessed |-> {}]
       ELSE IF ~existsSync(d, filePath)
       THEN [disk |-> d, res |-> Json(404, FALSE, "File not found"),
             accessed |-> {resolve(filePath)}]
       ELSE [disk |-> d,
             res |-> [Json(200, TRUE, "") EXCEPT !.size = readFile(d, filePath).size],
             accessed |-> {resolve(filePath)}]

downloadFile(d, dir, fileName) ==
    LET filePath == join(dir, fileName)
    IN IF ~guard(filePath, dir)
       THEN [disk |-> d, res |-> Json(403, FALSE, "Access denied"), accessed |-> {}]
       ELSE IF ~existsSync(d, filePath)
       THEN [disk |-> d, res |-> Json(404, FALSE, "File not found"),
             accessed |-> {resolve(filePath)}]
       ELSE [disk |-> d,
             res |-> [NoResponse EXCEPT !.status = 200,
                                        !.body = readFile(d, filePath),
                                        !.size = readFile(d, filePath).size],
             accessed |-> {resolve(filePath)}]

notFound(d) ==
    [disk |-> d, res |-> Json(404, FALSE, "Not found"), accessed |-> {}]

\* the route table, in registration order; a url is its path segments, the
\* parameter segment still encoded
RouteOf(method, url) ==
    IF method = "POST" /\ url = <<"upload">> THEN "upload"
    ELSE IF method = "GET" /\ url = <<"files">> THEN "files"
    ELSE IF method = "GET" /\ Len(url) = 2 /\ url[1] = "files" THEN "file"
    ELSE IF method = "GET" /\ Len(url) = 2 /\ url[1] = "download" THEN "download"
    ELSE "notFound"

Handle(d, dir, t, method, url, file, path, faults) ==
    LET h == RouteOf(method, url)
    IN IF h = "upload" THEN postUpload(d, dir, t, file, path, faults)
       ELSE IF h = "files" THEN listFiles(d, dir)
       ELSE IF h = "file" THEN getFileMetadata(d, dir, decodeURIComponent(url[2]))
       ELSE IF h = "download" THEN downloadFile(d, dir, decodeURIComponent(url[2]))
       ELSE notFound(d)

(***************************************************************************)
(* State.                                                                  *)
(***************************************************************************)
VARIABLES
    LOCAL_UPLOAD_DIR,   \* server: the configured storage root
    disk,               \* server: the filesystem
    now,                \* server: Date.now()
    last,               \* the last request the server handled and its response
    serverUp,           \* server: the process is running
    selectedFile,       \* client: the pending candidate, or NoCandidate
    uploadBtnDisabled,  \* client: uploadBtn.disabled
    fileInfoHidden,     \* client: fileInfo has class hidden
    progressHidden,     \* client: progressContainer has class hidden
    progress,           \* client: the percentage shown by progressFill/progressText
    loadingHidden,      \* client: loadingState has class hidden
    filesHidden,        \* client: filesContainer has class hidden
    emptyHidden,        \* client: emptyState has class hidden
    filesTbody,         \* client: the rows of the file table
    toast,              \* client: the last notification
    modalFile,          \* client: the file the open delete dialog asks about
    inflight            \* client: the requests issued and not yet settled

serverVars == <<LOCAL_UPLOAD_DIR, disk, now, last, serverUp>>
clientVars == <<selectedFile, uploadBtnDisabled, fileInfoHidden, progressHidden,
                progress, loadingHidden, filesHidden, emptyHidden, filesTbody,
                toast, modalFile, inflight>>
vars == <<LOCAL_UPLOAD_DIR, disk, now, last, serverUp,
          selectedFile, uploadBtnDisabled, fileInfoHidden, progressHidden,
          progress, loadingHidden, filesHidden, emptyHidden, filesTbody,
          toast, modalFile, inflight>>

NoCandidate == [name |-> <<>>, blob |-> NoBlob]
NoModal == <<>>
NoToast == ""

NoRequest ==
    [method |-> "", url |-> <<>>, file |-> NoFile, path |-> <<>>, faults |-> {},
     handler |-> "", res |-> NoResponse, accessed |-> {}]

InitDisk == (SiblingFile :> SecretBlob) @@ (EtcFile :> SecretBlob)

ServerInit ==
    /\ LOCAL_UPLOAD_DIR \in UploadDirs
    /\ disk = InitDisk
    /\ now = 0
    /\ last = NoRequest
    /\ serverUp = TRUE

\* the page as loaded, before DOMContentLoaded
PageInit ==
    /\ selectedFile = NoCandidate
    /\ uploadBtnDisabled = TRUE
    /\ fileInfoHidden = TRUE
    /\ progressHidden = TRUE
    /\ progress = 0
    /\ loadingHidden = TRUE
    /\ filesHidden = TRUE
    /\ emptyHidden = TRUE
    /\ filesTbody = {}
    /\ toast = NoToast
    /\ modalFile = NoModal
    /\ inflight = EmptyBag

Init == ServerInit /\ PageInit

(***************************************************************************)
(* The server handling one request (a handler runs to completion: it has   *)
(* no await).                                                              *)
(***************************************************************************)
Receive(method, url, file, path, faults) ==
    /\ serverUp
    /\ \E r \in {Handle(disk, LOCAL_UPLOAD_DIR, now, method, url, file, path, faults)} :
          /\ serverUp' = (r.res.status # 0)
          /\ disk' = r.disk
          /\ last' = [method |-> method, url |-> url, file |-> file, path |-> path,
                      faults |-> faults, handler |-> RouteOf(method, url),
                      res |-> r.res, accessed |-> r.accessed]
    /\ UNCHANGED <<LOCAL_UPLOAD_DIR, now>>

UploadFiles == { [originalname |-> n, blob |-> b] : n \in OriginalNames, b \in Blobs }

StoredNames == readdirSync(disk, LOCAL_UPLOAD_DIR)

Params == {SiblingParam, EtcParam, XCsv} \cup { encodeURIComponent(n) : n \in StoredNames }

Tick ==
    /\ now < MaxTime
    /\ now' = now + 1
    /\ UNCHANGED <<LOCAL_UPLOAD_DIR, disk, last, serverUp>>
    /\ UNCHANGED clientVars

PostUpload ==
    /\ \/ Receive("POST", <<"upload">>, NoFile, <<>>, {})
       \/ \E file \in UploadFiles, faults \in FaultSets :
              Receive("POST", <<"upload">>, file, TmpPath, faults)
    /\ UNCHANGED clientVars

GetFiles ==
    /\ Receive("GET", <<"files">>, NoFile, <<>>, {})
    /\ UNCHANGED clientVars

GetFileMetadata ==
    /\ \E param \in Params : Receive("GET", <<"files", param>>, NoFile, <<>>, {})
    /\ UNCHANGED clientVars

GetDownload ==
    /\ \E param \in Params : Receive("GET", <<"download", param>>, NoFile, <<>>, {})
    /\ UNCHANGED clientVars

DeleteRequest ==
    /\ \E param \in Params : Receive("DELETE", <<"delete", param>>, NoFile, <<>>, {})
    /\ UNCHANGED clientVars

Next ==
    \/ Tick
    \/ PostUpload
    \/ GetFiles
    \/ GetFileMetadata
    \/ GetDownload
    \/ DeleteRequest

Spec == Init /\ [][Next]_vars

(***************************************************************************)
(* The upload client (the page script).  A request the page has issued is  *)
(* in the bag inflight from the call that sends it until the handler that  *)
(* settles it has run; stage "sent" becomes "answered" when a response is  *)
(* ready.  Of a notification the model keeps the type, not the text.       *)
(***************************************************************************)
MAX_SIZE_off_by_one == 100 * 1024 * 1024 + 1

MAX_SIZE == 100 * 1024 * 1024

\* the files the user can pick or drop
PickableFiles ==
    { [name |-> ACsv, blob |-> [size |-> MAX_SIZE, data |-> "y"]],
      [name |-> ACsv, blob |-> [size |-> MAX_SIZE + 1, data |-> "y"]],
      [name |-> DTxt, blob |-> [size |-> 1, data |-> "x"]],
      [name |-> ACSV, blob |-> [size |-> 1, data |-> "x"]] }

\* what the page's origin can answer when it is not this server's handler
\* that answers (README: an NGINX reverse proxy sits in front of the server)
OriginResponses ==
    { Json(200, TRUE, ""),
      [NoResponse EXCEPT !.status = 200],
      Json(500, FALSE, "Internal server error") }

Request(kind, method, url, file) ==
    [kind |-> kind, stage |-> "sent", method |-> method, url |-> url,
     file |-> file, res |-> NoResponse]

Add(q, r) == q (+) SetToBag({r})

Remove(q, r) == q (-) SetToBag({r})

Pending == BagToSet(inflight)

UploadsIn(q) ==
    LET ups == { r \in BagToSet(q) : r.kind = "upload" }
    IN BagCardinality([r \in ups |-> q[r]])

showToast(message, type) == type

ok(res) == res.status >= 200 /\ res.status <= 299

\* loadFiles up to its first await, with the bag the fetch is added to
loadFilesStart(q) ==
    /\ loadingHidden' = FALSE
    /\ filesHidden' = TRUE
    /\ emptyHidden' = TRUE
    /\ inflight' = Add(q, Request("files", "GET", <<"files">>, NoFile))

resetProgress ==
    /\ progressHidden' = TRUE
    /\ progress' = 0

\* handleFileDrop(files): the listener of a drop or of a change of the file
\* input, called with the FileList files
handleFileDrop(files) ==
    /\ IF Len(files) = 0
       THEN UNCHANGED <<selectedFile, fileInfoHidden, uploadBtnDisabled, toast>>
       ELSE LET file == files[1]
            IN IF ~endsWith(file.name, Csv)
               THEN /\ toast' = showToast("Please select a CSV file", "error")
                    /\ UNCHANGED <<selectedFile, fileInfoHidden, uploadBtnDisabled>>
               ELSE IF file.blob.size > MAX_SIZE
               THEN /\ toast' = showToast("File size must be less than 100MB", "error")
                    /\ UNCHANGED <<selectedFile, fileInfoHidden, uploadBtnDisabled>>
               ELSE /\ selectedFile' = file
                    /\ fileInfoHidden' = FALSE
                    /\ uploadBtnDisabled' = FALSE
                    /\ UNCHANGED toast
    /\ UNCHANGED <<progressHidden, progress, loadingHidden, filesHidden, emptyHidden,
                   filesTbody, modalFile, inflight>>
    /\ UNCHANGED serverVars

\* the user drops or picks nothing or one of the pickable files
HandleFileDrop ==
    \E files \in {<<>>} \cup { <<f>> : f \in PickableFiles } : handleFileDrop(files)

\* removeFile: a click on the remove button of the file info panel
RemoveFile ==
    /\ ~fileInfoHidden
    /\ selectedFile' = NoCandidate
    /\ fileInfoHidden' = TRUE
    /\ uploadBtnDisabled' = TRUE
    /\ UNCHANGED <<progressHidden, progress, loadingHidden, filesHidden, emptyHidden,
                   filesTbody, toast, modalFile, inflight>>
    /\ UNCHANGED serverVars

\* uploadFile: a click on the upload button, up to xhr.send
UploadFile ==
    /\ ~uploadBtnDisabled
    /\ BagCardinality(inflight) < MaxInFlight
    /\ IF selectedFile = NoCandidate
       THEN /\ toast' = showToast("Please select a file", "error")
            /\ UNCHANGED <<uploadBtnDisabled, progressHidden, progress, inflight>>
       ELSE \E thrown \in BOOLEAN :
              IF thrown
              THEN /\ toast' = showToast("Error uploading file", "error")
                   /\ resetProgress
                   /\ uploadBtnDisabled' = FALSE
                   /\ UNCHANGED inflight
              ELSE /\ uploadBtnDisabled' = TRUE
                   /\ progressHidden' = FALSE
                   /\ inflight' = Add(inflight,
                          Request("upload", "POST", <<"uploads3">>,
                                  [originalname |-> selectedFile.name,
                                   blob |-> selectedFile.blob]))
                   /\ UNCHANGED <<progress, toast>>
    /\ UNCHANGED <<selectedFile, fileInfoHidden, loadingHidden, filesHidden, emptyHidden,
                   filesTbody, modalFile>>
    /\ UNCHANGED serverVars

\* the progress listener of an upload that is being sent
XhrProgress ==
    /\ \E r \in Pending : r.kind = "upload" /\ r.stage = "sent"
    /\ \E percentComplete \in {50} : progress' = percentComplete
    /\ UNCHANGED <<selectedFile, uploadBtnDisabled, fileInfoHidden, progressHidden,
                   loadingHidden, filesHidden, emptyHidden, filesTbody, toast,
                   modalFile, inflight>>
    /\ UNCHANGED serverVars

\* the server handles a request of the page
Serve ==
    /\ \E r \in Pending :
         /\ r.stage = "sent"
         /\ Receive(r.method, r.url, r.file,
                    IF r.file = NoFile THEN <<>> ELSE TmpPath, {})
         /\ inflight' = Add(Remove(inflight, r),
                            [r EXCEPT !.stage = "answered", !.res = last'.res])
    /\ UNCHANGED <<selectedFile, uploadBtnDisabled, fileInfoHidden, progressHidden,
                   progress, loadingHidden, filesHidden, emptyHidden, filesTbody,
                   toast, modalFile>>

\* something else at the page's origin answers a request of the page
OriginRespond ==
    /\ \E r \in Pending, res \in OriginResponses :
         /\ r.stage = "sent"
         /\ inflight' = Add(Remove(inflight, r),
                            [r EXCEPT !.stage = "answered", !.res = res])
    /\ UNCHANGED <<selectedFile, uploadBtnDisabled, fileInfoHidden, progressHidden,
                   progress, loadingHidden, filesHidden, emptyHidden, filesTbody,
                   toast, modalFile>>
    /\ UNCHANGED serverVars

\* the load listener of an upload
XhrLoad ==
    /\ \E r \in Pending :
         /\ r.kind = "upload"
         /\ r.stage = "answered"
         /\ IF r.res.status = 200
            THEN IF ~r.res.json
                 THEN \* JSON.parse throws: the listener ends here
                      /\ inflight' = Remove(inflight, r)
                      /\ UNCHANGED <<selectedFile, uploadBtnDisabled, fileInfoHidden,
                                     progressHidden, progress, loadingHidden,
                                     filesHidden, emptyHidden, toast>>
                 ELSE /\ toast' = showToast("File uploaded successfully!", "success")
                      /\ selectedFile' = NoCandidate
                      /\ fileInfoHidden' = TRUE
                      /\ loadFilesStart(Remove(inflight, r))
                      /\ resetProgress
                      /\ uploadBtnDisabled' = FALSE
            ELSE /\ toast' = showToast("Upload failed", "error")
                 /\ resetProgress
                 /\ uploadBtnDisabled' = FALSE
                 /\ inflight' = Remove(inflight, r)
                 /\ UNCHANGED <<selectedFile, fileInfoHidden, loadingHidden,
                                filesHidden, emptyHidden>>
    /\ UNCHANGED <<filesTbody, modalFile>>
    /\ UNCHANGED serverVars

\* the error listener of an upload: the request failed on the network
XhrError ==
    /\ \E r \in Pending :
         /\ r.kind = "upload"
         /\ r.stage = "sent"
         /\ inflight' = Remove(inflight, r)
    /\ toast' = showToast("Upload error. Please try again.", "error")
    /\ resetProgress
    /\ uploadBtnDisabled' = FALSE
    /\ UNCHANGED <<selectedFile, fileInfoHidden, loadingHidden, filesHidden,
                   emptyHidden, filesTbody, modalFile>>
    /\ UNCHANGED serverVars

\* loadFiles: a click on the refresh button
LoadFiles ==
    /\ BagCardinality(inflight) < MaxInFlight
    /\ loadFilesStart(inflight)
    /\ UNCHANGED <<selectedFile, uploadBtnDisabled, fileInfoHidden, progressHidden,
                   progress, filesTbody, toast, modalFile>>
    /\ UNCHANGED serverVars

\* loadFiles after its awaits: the fetch settled (failed: it rejected)
LoadFilesSettle ==
    /\ \E r \in Pending, failed \in BOOLEAN :
         /\ r.kind = "files"
         /\ failed => r.stage = "sent"
         /\ ~failed => r.stage = "answered"
         /\ inflight' = Remove(inflight, r)
         /\ IF failed \/ ~r.res.json
            THEN /\ toast' = showToast("Error loading files", "error")
                 /\ emptyHidden' = FALSE
                 /\ UNCHANGED <<filesHidden, filesTbody>>
            ELSE IF ok(r.res) /\ r.res.success
            THEN IF r.res.files = {}
                 THEN /\ emptyHidden' = FALSE
                      /\ UNCHANGED <<filesHidden, filesTbody, toast>>
                 ELSE /\ filesTbody' = r.res.files
                      /\ filesHidden' = FALSE
                      /\ UNCHANGED <<emptyHidden, toast>>
            ELSE /\ toast' = showToast("Failed to load files", "error")
                 /\ emptyHidden' = FALSE
                 /\ UNCHANGED <<filesHidden, filesTbody>>
    /\ loadingHidden' = TRUE
    /\ UNCHANGED <<selectedFile, uploadBtnDisabled, fileInfoHidden, progressHidden,
                   progress, modalFile>>
    /\ UNCHANGED serverVars

\* confirmDelete: a click on the delete button of a visible row
ConfirmDelete ==
    /\ ~filesHidden
    /\ \E row \in filesTbody : modalFile' = row.fileName
    /\ UNCHANGED <<selectedFile, uploadBtnDisabled, fileInfoHidden, progressHidden,
                   progress, loadingHidden, filesHidden, emptyHidden, filesTbody,
                   toast, inflight>>
    /\ UNCHANGED serverVars

\* closeModalDialog: a click on cancel or on the close button
CloseModalDialog ==
    /\ modalFile # NoModal
    /\ modalFile' = NoModal
    /\ UNCHANGED <<selectedFile, uploadBtnDisabled, fileInfoHidden, progressHidden,
                   progress, loadingHidden, filesHidden, emptyHidden, filesTbody,
                   toast, inflight>>
    /\ UNCHANGED serverVars

\* deleteFile up to its await: a click on the dialog's confirm button
DeleteFile ==
    /\ modalFile # NoModal
    /\ BagCardinality(inflight) < MaxInFlight
    /\ modalFile' = NoModal
    /\ toast' = showToast("Deleting file...", "warning")
    /\ inflight' = Add(inflight,
           Request("delete", "DELETE", <<"delete", encodeURIComponent(modalFile)>>, NoFile))
    /\ UNCHANGED <<selectedFile, uploadBtnDisabled, fileInfoHidden, progressHidden,
                   progress, loadingHidden, filesHidden, emptyHidden, filesTbody>>
    /\ UNCHANGED serverVars

\* deleteFile after its await
DeleteFileSettle ==
    /\ \E r \in Pending, failed \in BOOLEAN :
         /\ r.kind = "delete"
         /\ failed => r.stage = "sent"
         /\ ~failed => r.stage = "answered"
         /\ IF failed
            THEN /\ toast' = showToast("Error deleting file", "error")
                 /\ inflight' = Remove(inflight, r)
                 /\ UNCHANGED <<loadingHidden, filesHidden, emptyHidden>>
            ELSE IF ok(r.res)
            THEN /\ toast' = showToast("File deleted successfully", "success")
                 /\ loadFilesStart(Remove(inflight, r))
            ELSE /\ toast' = showToast("Delete failed", "error")
                 /\ inflight' = Remove(inflight, r)
                 /\ UNCHANGED <<loadingHidden, filesHidden, emptyHidden>>
    /\ UNCHANGED <<selectedFile, uploadBtnDisabled, fileInfoHidden, progressHidden,
                   progress, filesTbody, modalFile>>
    /\ UNCHANGED serverVars

\* a stored file left by an earlier upload
EarlierFile == DockerUploadDir \o <<"/">> \o savedName(0, ACsv)

\* the page after the DOMContentLoaded listener: loadFiles has started
ClientInit ==
    /\ LOCAL_UPLOAD_DIR = DefaultUploadDir
    /\ disk \in {InitDisk, (EarlierFile :> [size |-> 1, data |-> "x"]) @@ InitDisk}
    /\ now = 1
    /\ last = NoRequest
    /\ serverUp = TRUE
    /\ selectedFile = NoCandidate
    /\ uploadBtnDisabled = TRUE
    /\ fileInfoHidden = TRUE
    /\ progressHidden = TRUE
    /\ progress = 0
    /\ loadingHidden = FALSE
    /\ filesHidden = TRUE
    /\ emptyHidden = TRUE
    /\ filesTbody = {}
    /\ toast = NoToast
    /\ modalFile = NoModal
    /\ inflight = SetToBag({Request("files", "GET", <<"files">>, NoFile)})

ClientNext ==
    \/ HandleFileDrop
    \/ RemoveFile
    \/ UploadFile
    \/ XhrProgress
    \/ Serve
    \/ OriginRespond
    \/ XhrLoad
    \/ XhrError
    \/ LoadFiles
    \/ LoadFilesSettle
    \/ ConfirmDelete
    \/ CloseModalDialog
    \/ DeleteFile
    \/ DeleteFileSettle

ClientSpec == ClientInit /\ [][ClientNext]_vars

(***************************************************************************)
(* Notions the claims are stated with.                                     *)
(***************************************************************************)
\* the file a request's fileName parameter names: the decoded parameter
\* joined to the storage root, as the filesystem resolves it
RequestedPath(r) ==
    resolve(LOCAL_UPLOAD_DIR \o <<"/">> \o decodeURIComponent(r.url[2]))

\* an absolute path that lies inside the storage root
InsideRoot(p) == startsWith(p, resolve(LOCAL_UPLOAD_DIR) \o <<"/">>)

IsFileRequest(r) == r.handler \in {"file", "download"}

\* the files of the storage directory, by stored name
StoredFilesOf(d) ==
    [n \in readdirSync(d, LOCAL_UPLOAD_DIR) |-> readFile(d, LOCAL_UPLOAD_DIR \o <<"/">> \o n)]

\* an fs call of the upload handler's try block threw
Threw(r) ==
    /\ r.file # NoFile
    /\ IF endsWith(r.file.originalname, Csv)
       THEN r.faults \cap {"copyFileSync", "unlinkSync"} # {}
       ELSE "unlinkSync" \in r.faults

(***************************************************************************)
(* Claims about the file store service, checked under Spec.                *)
(***************************************************************************)

\* C1: a fileName that resolves outside the storage root is answered 403 by
\* getFileMetadata and downloadFile, and no fs call is made on the path.
C1_TraversalDenied ==
    (IsFileRequest(last) /\ ~InsideRoot(RequestedPath(last)))
        => (last.res.status = 403 /\ last.accessed = {})

\* C2: a download of savedAs right after the upload that answered 200 with
\* that savedAs answers 200 with the uploaded bytes, for every storage root.
C2_RoundTrip ==
    [][ ( /\ last.handler = "upload"
          /\ last.res.status = 200
          /\ last'.handler = "download"
          /\ decodeURIComponent(last'.url[2]) = last.res.savedAs )
        => (last'.res.status = 200 /\ last'.res.body = last.file.blob) ]_vars

\* C3: DELETE /delete/:fileName for a stored name answers 200 with a success
\* flag and the name is no longer in the storage directory.
C3_DeleteRemoves ==
    [][ ( /\ last' # last
          /\ last'.method = "DELETE"
          /\ Len(last'.url) = 2
          /\ last'.url[1] = "delete"
          /\ decodeURIComponent(last'.url[2]) \in StoredNames )
        => ( /\ last'.res.status = 200
             /\ last'.res.success
             /\ decodeURIComponent(last'.url[2]) \notin readdirSync(disk', LOCAL_UPLOAD_DIR) ) ]_vars

\* C4: for a fileName inside the storage root, getFileMetadata and
\* downloadFile answer 404 exactly when no file is there, 200 when one is,
\* and never 403, for every storage root.
C4_InRootNotFoundOrOk ==
    (IsFileRequest(last) /\ InsideRoot(RequestedPath(last)))
        => ( /\ last.res.status # 403
             /\ (last.res.status = 404) <=> (RequestedPath(last) \notin DOMAIN disk)
             /\ (last.res.status = 200) <=> (RequestedPath(last) \in DOMAIN disk) )

\* C5: the savedAs of every successful upload differs from every name that
\* is in the storage directory when the upload is handled.
C5_UniqueStoredName ==
    [][ ( /\ (last' # last \/ disk' # disk)
          /\ last'.handler = "upload"
          /\ last'.res.status = 200 )
        => last'.res.savedAs \notin StoredNames ]_vars

C7_UploadAlwaysAnswered ==
    last.handler = "upload"
        => ( /\ last.res.status # 0
             /\ Threw(last) => (last.res.status = 500 /\ last.res.json) )

(***************************************************************************)
(* Claims about the upload client and the service together, checked under  *)
(* ClientSpec.                                                             *)
(***************************************************************************)

\* C8: the upload request the page sends for its candidate is handled by
\* the service's upload handler and answered 200, and the file list then
\* has an entry whose size is the candidate's byte length.
C8_UploadThenListed ==
    (last.method = "POST" /\ last.file # NoFile)
        => ( /\ last.handler = "upload"
             /\ last.res.status = 200
             /\ \E f \in listFiles(disk, LOCAL_UPLOAD_DIR).res.files :
                    f.size = last.file.blob.size )

\* C9: while an upload request of the page is in flight the submit button
\* is disabled, and no second upload request is in flight.
C9_OneUploadInFlight ==
    UploadsIn(inflight) > 0
        => (uploadBtnDisabled /\ UploadsIn(inflight) <= 1)

\* C10: the step that settles an upload request leaves the progress
\* indicator hidden and at 0% and the submit button enabled.
C10_SettleResets ==
    [][ UploadsIn(inflight') < UploadsIn(inflight)
        => (progressHidden' /\ progress' = 0 /\ ~uploadBtnDisabled') ]_vars

\* C11: the pending candidate is always absent or a file whose name ends
\* with the suffix .csv (in that case) and whose size is at most
\* 104,857,600 bytes; handleFileDrop called with a file that has another
\* name or a larger size shows an error notification and leaves the pending
\* candidate as it was, so that file does not become the candidate.
C11_CandidateValid ==
    [][ /\ \/ selectedFile' = NoCandidate
           \/ /\ Len(selectedFile'.name) >= 2
              /\ SubSeq(selectedFile'.name, Len(selectedFile'.name) - 1,
                        Len(selectedFile'.name)) = <<".", "csv">>
              /\ selectedFile'.blob.size <= 104857600
        /\ \A f \in PickableFiles :
              ( /\ \/ Len(f.name) < 2
                   \/ SubSeq(f.name, Len(f.name) - 1, Len(f.name)) # <<".", "csv">>
                   \/ f.blob.size > 104857600
                /\ handleFileDrop(<<f>>) )
              => (toast' = "error" /\ selectedFile' = selectedFile /\ selectedFile' # f)
      ]_vars

\* C11 witness: a file of exactly 104,857,600 bytes named a.csv is the
\* pending candidate and the last notification is an error, as after a
\* later drop of a file that was turned down; no request is in flight.
C11_Witness ==
    /\ selectedFile # NoCandidate
    /\ selectedFile.name = ACsv
    /\ selectedFile.blob.size = 104857600
    /\ toast = "error"
    /\ inflight = EmptyBag

\* C12: the loading indicator is visible exactly when a file-list request
\* of the page is in flight, also when the refreshes started at startup, by
\* the refresh button and after an upload or a delete overlap.
C12_LoadingIffInFlight ==
    (~loadingHidden) <=> (\E r \in Pending : r.kind = "files")

\* C13: when the step that settles a file-list request leaves no file-list
\* request in flight, exactly one of the file table and the empty-state
\* placeholder is visible: the table when the settled response was a success
\* with a non-empty list, the placeholder otherwise, whatever the order in
\* which overlapping requests were answered.
C13_TableXorPlaceholder ==
    [][ \A r \in Pending :
          ( /\ r.kind = "files"
            /\ inflight' = Remove(inflight, r)
            /\ \A q \in BagToSet(inflight') : q.kind # "files" )
          => ( /\ filesHidden' # emptyHidden'
               /\ (~filesHidden') <=> ( /\ r.stage = "answered"
                                        /\ r.res.json
                                        /\ r.res.status >= 200
                                        /\ r.res.status <= 299
                                        /\ r.res.success
                                        /\ r.res.files # {} ) ) ]_vars

====
